---- MODULE Spec2Model ----
(***************************************************************************)
(* A model of the numeric vector library (src/src/vector.rs) and of ones() *)
(* on the shaped builders of nested Vecs (src/src/builders/ones.rs).       *)
(*                                                                         *)
(* The library has no global state: every Vector<T> owns its elements and  *)
(* every operation is a synchronous call.  The model is a caller that      *)
(* holds one vector `a`, makes one call at a time and records the call in  *)
(* `op` and what came back in `res`:                                       *)
(*   [kind |-> "ok", v |-> <the returned vector>]     the call returned    *)
(*   [kind |-> "panic", msg |-> ..., args |-> ...]    the call panicked    *)
(* A Rust Vec<T> is a TLA+ sequence; Rust index i is TLA+ index i + 1.     *)
(* `b` is a second vector the caller owns, the clone of `a`.               *)
(*                                                                         *)
(* Element types.  The fill builders and the operators are modelled over   *)
(* an integer element type with values small enough that no operation      *)
(* overflows, so + - * are the mathematical ones.  range is modelled over  *)
(* i8: its loop adds step to current_step until the sum leaves the type    *)
(* when step is negative, and what an overflow does depends on the build   *)
(* (a panic with overflow checks, a wrapped sum without), so both are      *)
(* outcomes of the model.  linspace needs T: Float; it is modelled over    *)
(* f64 operands in the binade [2^53, 2^54), where the representable values *)
(* are the even integers: the model's finite float k stands for the        *)
(* f64 value 2^53 + 2k, and an addition rounds to the nearest k, ties to   *)
(* the even mantissa (IEEE 754 round-to-nearest-even), which is the even   *)
(* k.  This is the smallest setting in which the accumulated rounding of   *)
(* `current_step += step` is visible.                                      *)
(*                                                                         *)
(* The specifications share the variables:                                 *)
(*   Spec       the fill builders and the arithmetic operators;            *)
(*   SeqSpec    the sequence builders range and linspace, whose `while`    *)
(*              loop is followed one iteration per step;                   *)
(*   OnesSpec   one call of ones() on a shaped builder;                    *)
(*   CallSpec   one call on a vector built from a literal: compound        *)
(*              assignment, indexing, slicing, comparison, uniform, power, *)
(*              filter, sum, max, min and iteration;                       *)
(*   ScalarSpec  one vector-scalar compound assignment with a scalar from  *)
(*              the whole of i8, in a build with and without overflow      *)
(*              checks;                                                    *)
(*   CloneSpec  a vector `a` and its clone `b`, each changed by sequences  *)
(*              of compound assignments;                                   *)
(*   FrameSpec  two vectors and any sequence of the library's calls on     *)
(*              them;                                                      *)
(*   AlgebraSpec  one vector through a sequence of additions and           *)
(*              subtractions.                                              *)
(***************************************************************************)
EXTENDS Integers, Sequences, FiniteSets, TLC

VARIABLES a, b, op, res, pc, current_step, elements, step

vars == <<a, b, op, res, pc, current_step, elements, step>>

(***************************************************************************)
(* Bounds of the model.                                                    *)
(***************************************************************************)
\* Longest vector the caller builds, and largest `len` given to a fill builder.
MaxLen == 3
\* Largest start/stop given to range and linspace.
MaxStop == 4
\* Largest step given to range.
MaxStep == 2
\* Largest `len` given to linspace.
MaxLinLen == 6
\* Largest exponent given to power.
MaxExp == 5
\* Longest vector that is cloned.
MaxCloneLen == 2
\* Longest vector of the two the frame claims are checked on.
MaxFrameLen == 2
\* Largest extent of a dimension of a nested Vec.
MaxExtent == 2
\* The deepest nesting One is implemented for.
MaxDepth == 4

\* The integer element type T is a signed integer of this many bits (i8).
IntBits == 8
\* T::MIN and T::MAX
IntMin == -(2^(IntBits - 1))
IntMax == 2^(IntBits - 1) - 1

\* Element values and scalar operands of the operators.
Elems == {-1, 0, 2}
Scalars == {-1, 0, 2}
Lens == 0..MaxLen
Vectors == UNION {[1..n -> Elems] : n \in Lens}

\* range's operands: small values, and the largest step of the type.
RangeVals == -1..MaxStop
Steps == -1..MaxStep \cup {IntMax}
\* Scalar operands of the compound assignments that span the element type.
TypeScalars == Scalars \cup {IntMin, IntMax}
\* linspace's operands (finite floats k) and lengths.
LinVals == 0..MaxStop
LinLens == 0..MaxLinLen
\* The two ways the crate is built: with overflow checks (`debug`, where an
\* arithmetic overflow panics) and without (`release`, where it wraps).
Builds == {"debug", "release"}
\* usize::MAX, for a usize of 8 bits.
UsizeMax == 2^8 - 1
\* Indices and range bounds given to indexing and slicing: up to past the
\* end of the longest vector, and usize::MAX.
Usizes == 0..(MaxLen + 1) \cup {UsizeMax}
\* Exponents given to power.
Exps == 0..MaxExp
\* The comparisons a filter criteria makes.
Cmps == {"ge", "le", "lt", "eq", "ne"}
\* low and high given to uniform.
UniformVals == -1..2
\* Elements of the vectors that are cloned and then changed by sequences of
\* compound assignments, and the operands of these: a compound assignment
\* whose result has an element outside CloneVals is not made, which keeps
\* the elements in a range where the arithmetic does not overflow.
CloneVals == -1..1
CloneVectors == UNION {[1..n -> CloneVals] : n \in 0..MaxCloneLen}
\* A loop that does not leave on its own is followed no further once it has
\* pushed this many elements.  A linspace call that returns has pushed at
\* most MaxStop + 1 elements (each iteration advances by at least one float
\* of the grid), and the only range loop that is cut here is the one with
\* step = 0, which finds current_step where it left it for ever.
MaxIter == MaxStop + 2

(***************************************************************************)
(* What a call gives back.                                                 *)
(***************************************************************************)
Ok(v) == [kind |-> "ok", v |-> v]
Panic(msg, args) == [kind |-> "panic", msg |-> msg, args |-> args]
Pending == [kind |-> "pending"]
NoCall == [name |-> "none"]

(***************************************************************************)
(* Vector container.                                                       *)
(***************************************************************************)
\* Vector::len
VLen(v) == Len(v)

\* From<Vec<T>>: wraps the Vec as it is.
FromVec(elems) == elems

\* The element at Rust index i of a vector, for i < len.
At(v, i) == v[i + 1]

(***************************************************************************)
(* Fill builders.                                                          *)
(***************************************************************************)
\* Mutant of Full: one element too many.
FullOffByOne(len, value) == [i \in 1..(len + 1) |-> value]

\* Vector::full: vec![value; len]
Full(len, value) == [i \in 1..len |-> value]

\* Mutant of MacroRepeat: the two macro arguments taken in the wrong order.
MacroRepeatSwapped(elem, len) == Full(elem, len)

\* vector![elem; len] expands to Vector::full(len, elem).
MacroRepeat(elem, len) == Full(len, elem)

\* Vector::full_like: vec![value; v.len()]
FullLike(v, value) == [i \in 1..VLen(v) |-> value]

\* Vector::zeros: Self::full(len, T::from_i32(0).unwrap())
Zeros(len) == Full(len, 0)

\* Mutant of ZerosLike: fills with the elements of v instead of zeros.
ZerosLikeCopies(v) == [i \in 1..Len(v) |-> v[i]]

\* Vector::zeros_like: Self::full(v.elements.len(), T::from_i32(0).unwrap())
ZerosLike(v) == Full(Len(v), 0)

\* Vector::ones: Self::full(len, T::from_i32(1).unwrap())
Ones(len) == Full(len, 1)

\* Vector::ones_like: Self::full(v.elements.len(), T::from_i32(1).unwrap())
OnesLike(v) == Full(Len(v), 1)

(***************************************************************************)
(* Elementwise operators, vector with vector.  Each checks the lengths     *)
(* first and panics with both of them in the message; otherwise it maps    *)
(* over self.elements.iter().enumerate() and reads other[i].               *)
(***************************************************************************)
\* impl ops::Add<Vector<T>> for Vector<T>
Add(self, other) ==
    IF VLen(self) # VLen(other)
    THEN Panic("Vector addition with invalid length", <<VLen(self), VLen(other)>>)
    ELSE Ok([i \in 1..VLen(self) |-> self[i] + At(other, i - 1)])

\* Mutant of Sub: a mismatch is not rejected, the longer operand is cut to
\* the shorter one.
SubTruncating(self, other) ==
    LET n == IF VLen(self) < VLen(other) THEN VLen(self) ELSE VLen(other)
    IN  Ok([i \in 1..n |-> self[i] - At(other, i - 1)])

\* impl ops::Sub<Vector<T>> for Vector<T>
Sub(self, other) ==
    IF VLen(self) # VLen(other)
    THEN Panic("Vector substraction with invalid length", <<VLen(self), VLen(other)>>)
    ELSE Ok([i \in 1..VLen(self) |-> self[i] - At(other, i - 1)])

\* Mutant of Mul: every element is multiplied by other[0].
MulByFirst(self, other) ==
    IF VLen(self) # VLen(other)
    THEN Panic("Vector multiplication with invalid length", <<VLen(self), VLen(other)>>)
    ELSE Ok([i \in 1..VLen(self) |-> self[i] * At(other, 0)])

\* impl ops::Mul<Vector<T>> for Vector<T>
Mul(self, other) ==
    IF VLen(self) # VLen(other)
    THEN Panic("Vector multiplication with invalid length", <<VLen(self), VLen(other)>>)
    ELSE Ok([i \in 1..VLen(self) |-> self[i] * At(other, i - 1)])

(***************************************************************************)
(* Scalar broadcasts.  The scalar on the right: a method of Vector<T>.     *)
(* The scalar on the left: generated per element type by the macros        *)
(* impl_add_vector_for_type, impl_sub_vector_for_type and                  *)
(* impl_mul_vector_for_type.                                               *)
(***************************************************************************)
\* impl ops::Add<T> for Vector<T>: |x| *x + value
AddScalar(self, value) == [i \in 1..VLen(self) |-> self[i] + value]

\* Mutant of SubScalar: the operands of the subtraction exchanged.
SubScalarReversed(self, value) == [i \in 1..VLen(self) |-> value - self[i]]

\* impl ops::Sub<T> for Vector<T>: |x| *x - value
SubScalar(self, value) == [i \in 1..VLen(self) |-> self[i] - value]

\* impl ops::Mul<T> for Vector<T>: |x| *x * value
MulScalar(self, value) == [i \in 1..VLen(self) |-> self[i] * value]

\* impl ops::Add<Vector<$t>> for $t: |x| *x + self
ScalarAdd(self, v) == [i \in 1..VLen(v) |-> v[i] + self]

\* Mutant of ScalarSub: computed as element - scalar, like the right-scalar form.
ScalarSubAsRight(self, v) == [i \in 1..VLen(v) |-> v[i] - self]

\* impl ops::Sub<Vector<$t>> for $t: |x| self - *x
ScalarSub(self, v) == [i \in 1..VLen(v) |-> self - v[i]]

\* impl ops::Mul<Vector<$t>> for $t: |x| *x * self
ScalarMul(self, v) == [i \in 1..VLen(v) |-> v[i] * self]

(***************************************************************************)
(* The caller, specification Spec: it builds its vector `a` from a         *)
(* literal, and calls the fill builders and the operators.  The by-value   *)
(* operators are given a copy of `a`, so `a` stays what it was.            *)
(***************************************************************************)
Init ==
    /\ a = <<>>
    /\ b = <<>>
    /\ op = NoCall
    /\ res = [kind |-> "none"]
    /\ pc = "idle"
    /\ current_step = 0
    /\ elements = <<>>
    /\ step = 0

\* The return of a call that has no loop: the call and its result are recorded.
Returns(call, result) ==
    /\ op' = call
    /\ res' = result
    /\ UNCHANGED <<a, b, pc, current_step, elements, step>>

\* let a = Vector::from(vec![...])
CallFrom(elems) ==
    /\ pc = "idle"
    /\ a' = FromVec(elems)
    /\ op' = [name |-> "from", elems |-> elems]
    /\ res' = Ok(FromVec(elems))
    /\ UNCHANGED <<b, pc, current_step, elements, step>>

CallFull(len, value) ==
    /\ pc = "idle"
    /\ Returns([name |-> "full", len |-> len, value |-> value], Ok(Full(len, value)))

CallMacroRepeat(elem, len) ==
    /\ pc = "idle"
    /\ Returns([name |-> "vector!", len |-> len, value |-> elem], Ok(MacroRepeat(elem, len)))

CallFullLike(value) ==
    /\ pc = "idle"
    /\ Returns([name |-> "full_like", v |-> a, value |-> value], Ok(FullLike(a, value)))

CallZeros(len) ==
    /\ pc = "idle"
    /\ Returns([name |-> "zeros", len |-> len], Ok(Zeros(len)))

CallZerosLike ==
    /\ pc = "idle"
    /\ Returns([name |-> "zeros_like", v |-> a], Ok(ZerosLike(a)))

CallOnes(len) ==
    /\ pc = "idle"
    /\ Returns([name |-> "ones", len |-> len], Ok(Ones(len)))

CallOnesLike ==
    /\ pc = "idle"
    /\ Returns([name |-> "ones_like", v |-> a], Ok(OnesLike(a)))

CallAdd(other) ==
    /\ pc = "idle"
    /\ Returns([name |-> "add", x |-> a, y |-> other], Add(a, other))

CallSub(other) ==
    /\ pc = "idle"
    /\ Returns([name |-> "sub", x |-> a, y |-> other], Sub(a, other))

CallMul(other) ==
    /\ pc = "idle"
    /\ Returns([name |-> "mul", x |-> a, y |-> other], Mul(a, other))

CallAddScalar(s) ==
    /\ pc = "idle"
    /\ Returns([name |-> "add_scalar", x |-> a, s |-> s], Ok(AddScalar(a, s)))

CallSubScalar(s) ==
    /\ pc = "idle"
    /\ Returns([name |-> "sub_scalar", x |-> a, s |-> s], Ok(SubScalar(a, s)))

CallMulScalar(s) ==
    /\ pc = "idle"
    /\ Returns([name |-> "mul_scalar", x |-> a, s |-> s], Ok(MulScalar(a, s)))

CallScalarAdd(s) ==
    /\ pc = "idle"
    /\ Returns([name |-> "scalar_add", x |-> a, s |-> s], Ok(ScalarAdd(s, a)))

CallScalarSub(s) ==
    /\ pc = "idle"
    /\ Returns([name |-> "scalar_sub", x |-> a, s |-> s], Ok(ScalarSub(s, a)))

CallScalarMul(s) ==
    /\ pc = "idle"
    /\ Returns([name |-> "scalar_mul", x |-> a, s |-> s], Ok(ScalarMul(s, a)))

Next ==
    \/ \E elems \in Vectors : CallFrom(elems)
    \/ \E len \in Lens, value \in Scalars : CallFull(len, value)
    \/ \E len \in Lens, value \in Scalars : CallMacroRepeat(value, len)
    \/ \E value \in Scalars : CallFullLike(value)
    \/ \E len \in Lens : CallZeros(len)
    \/ CallZerosLike
    \/ \E len \in Lens : CallOnes(len)
    \/ CallOnesLike
    \/ \E other \in Vectors : CallAdd(other)
    \/ \E other \in Vectors : CallSub(other)
    \/ \E other \in Vectors : CallMul(other)
    \/ \E s \in Scalars : CallAddScalar(s)
    \/ \E s \in Scalars : CallSubScalar(s)
    \/ \E s \in Scalars : CallMulScalar(s)
    \/ \E s \in Scalars : CallScalarAdd(s)
    \/ \E s \in Scalars : CallScalarSub(s)
    \/ \E s \in Scalars : CallScalarMul(s)

Spec == Init /\ [][Next]_vars

(***************************************************************************)
(* Claims about the fill builders and the operators, checked under Spec.   *)
(***************************************************************************)
VecVecOps == {"add", "sub", "mul"}

\* The scalar operator a vector-vector call applies.
Scalar(name, x, y) ==
    CASE name = "add" -> x + y
      [] name = "sub" -> x - y
      [] name = "mul" -> x * y

\* C1: for equal-length operands a + b, a - b and a * b return a new vector
\* of the same length whose element at every index i is a[i] + b[i],
\* a[i] - b[i], a[i] * b[i]; empty operands give an empty result, and the
\* caller's vector is left as it was.
C1_ElementwiseEqualLength ==
    (op.name \in VecVecOps /\ Len(op.x) = Len(op.y)) =>
        /\ res.kind = "ok"
        /\ Len(res.v) = Len(op.x)
        /\ \A i \in 1..Len(op.x) : res.v[i] = Scalar(op.name, op.x[i], op.y[i])
        /\ (op.x = <<>> => res.v = <<>>)
        /\ a = op.x

\* A product of two vectors of the longest length whose elements differ from
\* index to index has been returned.
C1_Witness ==
    /\ op.name = "mul"
    /\ Len(op.x) = MaxLen /\ Len(op.y) = MaxLen
    /\ op.y[1] # op.y[MaxLen]
    /\ res.kind = "ok"
    /\ res.v[1] # res.v[MaxLen]

LengthMismatchMsgs ==
    { "Vector addition with invalid length",
      "Vector substraction with invalid length",
      "Vector multiplication with invalid length" }

\* C2: for operands of different lengths a + b, a - b and a * b fail with a
\* length-mismatch panic that carries both lengths, and no vector is
\* returned (neither a truncated nor a padded one).
C2_LengthMismatchPanics ==
    (op.name \in VecVecOps /\ Len(op.x) # Len(op.y)) =>
        /\ res.kind = "panic"
        /\ res.msg \in LengthMismatchMsgs
        /\ res.args = <<Len(op.x), Len(op.y)>>
        /\ "v" \notin DOMAIN res

\* A subtraction of a shorter non-empty vector from a longer one has panicked.
C2_Witness ==
    /\ op.name = "sub"
    /\ Len(op.y) > 0 /\ Len(op.x) > Len(op.y)
    /\ res.kind = "panic"

\* C7: full(len, value) has length len and every element equal to value,
\* len = 0 included; vector![value; len] returns what full(len, value) does.
C7_FullLengthAndValue ==
    /\ op.name \in {"full", "vector!"} =>
          /\ res.kind = "ok"
          /\ VLen(res.v) = op.len
          /\ \A i \in 1..VLen(res.v) : res.v[i] = op.value
    /\ op.name = "vector!" => res = Ok(Full(op.len, op.value))

\* The macro has been called with the longest length and a value that is not
\* that length, and has returned that many copies of the value.
C7_Witness ==
    /\ op.name = "vector!"
    /\ op.len = MaxLen /\ op.value # op.len
    /\ res = Ok(Full(MaxLen, op.value))

\* What full(len, value) is specified to return: len copies of value.
Copies(len, value, v) == Len(v) = len /\ \A i \in 1..Len(v) : v[i] = value

\* C8: zeros(len) = full(len, 0), ones(len) = full(len, 1),
\* full_like(v, x) = full(v.len(), x), zeros_like(v) = full(v.len(), 0) and
\* ones_like(v) = full(v.len(), 1); the *_like result has v's length whatever
\* v's elements are.
C8_FillBuildersReduceToFull ==
    /\ op.name = "zeros" => res.kind = "ok" /\ Copies(op.len, 0, res.v) /\ res.v = Full(op.len, 0)
    /\ op.name = "ones" => res.kind = "ok" /\ Copies(op.len, 1, res.v) /\ res.v = Full(op.len, 1)
    /\ op.name = "full_like" =>
          res.kind = "ok" /\ Copies(Len(op.v), op.value, res.v)
                          /\ res.v = Full(Len(op.v), op.value)
    /\ op.name = "zeros_like" =>
          res.kind = "ok" /\ Copies(Len(op.v), 0, res.v) /\ res.v = Full(Len(op.v), 0)
    /\ op.name = "ones_like" =>
          res.kind = "ok" /\ Copies(Len(op.v), 1, res.v) /\ res.v = Full(Len(op.v), 1)

\* zeros_like has been called on a vector of the longest length that holds no 0.
C8_Witness ==
    /\ op.name = "zeros_like"
    /\ Len(op.v) = MaxLen
    /\ \A i \in 1..MaxLen : op.v[i] # 0
    /\ res = Ok(Full(MaxLen, 0))

\* C9: v + s, v - s and v * s return a new vector of v's length whose element
\* at every index i is v[i] + s, v[i] - s, v[i] * s; no length precondition,
\* and an empty v gives an empty result.
C9_RightScalarBroadcast ==
    /\ op.name = "add_scalar" =>
          res.kind = "ok" /\ Len(res.v) = Len(op.x)
                          /\ \A i \in 1..Len(op.x) : res.v[i] = op.x[i] + op.s
    /\ op.name = "sub_scalar" =>
          res.kind = "ok" /\ Len(res.v) = Len(op.x)
                          /\ \A i \in 1..Len(op.x) : res.v[i] = op.x[i] - op.s
    /\ op.name = "mul_scalar" =>
          res.kind = "ok" /\ Len(res.v) = Len(op.x)
                          /\ \A i \in 1..Len(op.x) : res.v[i] = op.x[i] * op.s
    /\ op.name \in {"add_scalar", "sub_scalar", "mul_scalar"} => a = op.x

\* v - s has been computed for a vector of the longest length and a scalar
\* that differs from its first element.
C9_Witness ==
    /\ op.name = "sub_scalar"
    /\ Len(op.x) = MaxLen
    /\ op.s # 0 /\ op.x[1] # op.s
    /\ res.kind = "ok"
    /\ res.v[1] = op.x[1] - op.s

\* C10: s + v equals v + s and s * v equals v * s; s - v has element
\* s - v[i] at every index (not v[i] - s), so it differs from v - s whenever
\* some v[i] # s.
C10_LeftScalar ==
    /\ op.name = "scalar_add" => res = Ok(AddScalar(op.x, op.s))
    /\ op.name = "scalar_mul" => res = Ok(MulScalar(op.x, op.s))
    /\ op.name = "scalar_sub" =>
          /\ res.kind = "ok"
          /\ Len(res.v) = Len(op.x)
          /\ \A i \in 1..Len(op.x) : res.v[i] = op.s - op.x[i]
          /\ (\E i \in 1..Len(op.x) : op.x[i] # op.s) => res.v # SubScalar(op.x, op.s)

\* s - v has been computed for a vector one of whose elements differs from s.
C10_Witness ==
    /\ op.name = "scalar_sub"
    /\ Len(op.x) = MaxLen
    /\ op.x[MaxLen] # op.s
    /\ res.kind = "ok"
    /\ res.v[MaxLen] = op.s - op.x[MaxLen]

(***************************************************************************)
(* Sequence builders.                                                      *)
(*                                                                         *)
(* range<T> is modelled over a signed integer type of IntBits bits; its    *)
(* operands are taken from a small range around zero.                      *)
(***************************************************************************)
\* Mutant of RangeInvalid: an empty interval start = stop is let through.
RangeInvalidStrict(start, stop) == start > stop

\* range: `if start >= stop { panic!(...) }`
RangeInvalid(start, stop) == start >= stop

\* range: the loop condition `while current_step < stop`
RangeContinue(cur, stop) == cur < stop

\* The result n of an operation on T is a value of T: it does not overflow.
Fits(n) == IntMin <= n /\ n <= IntMax

\* What an operation on T gives where overflow is not checked: the result
\* modulo 2^IntBits, taken in T's range.
Wrap(n) == ((n - IntMin) % 2^IntBits) + IntMin

(***************************************************************************)
(* linspace<T: Float> is modelled over f64 values of the binade            *)
(* [2^53, 2^54): the finite float k stands for 2^53 + 2k.  A float is      *)
(* [inf |-> FALSE, k |-> k] or plus infinity, [inf |-> TRUE, k |-> 0].     *)
(* The small floats that are not on this grid (a difference, len, the      *)
(* step) are exact integers or an exact quotient num/den in units of 2:    *)
(* the quotient's own rounding error is below 2^-52 of its value and       *)
(* cannot change how current_step + step rounds, because num/den is either *)
(* an exact half (then the quotient is exact) or at least 1/(2 den) away   *)
(* from one.                                                               *)
(***************************************************************************)
Fin(k) == [inf |-> FALSE, k |-> k]
PosInf == [inf |-> TRUE, k |-> 0]

\* x < y on floats.
FLt(x, y) == ~x.inf /\ (y.inf \/ x.k < y.k)

\* x >= y on floats.
FGe(x, y) == x.inf \/ (~y.inf /\ x.k >= y.k)

\* stop - start for two finite floats of the binade: exact, in units of 2.
FSub(x, y) == x.k - y.k

\* T::from_usize(len).unwrap()
FromUsize(len) == len

\* The quotient num/den of two small exact floats; IEEE 754 gives plus
\* infinity for a positive numerator over zero.
FDiv(num, den) == [num |-> num, den |-> den]

\* The integer nearest to n/d for d > 0, ties to the even one.
RoundTiesEven(n, d) ==
    LET lo == n \div d
        r == n % d
    IN  IF 2 * r < d THEN lo
        ELSE IF 2 * r > d THEN lo + 1
        ELSE IF lo % 2 = 0 THEN lo ELSE lo + 1

\* current_step += step: the exact sum rounded to the nearest float of the
\* binade, ties to even.
FAdd(x, s) ==
    IF x.inf THEN x
    ELSE IF s.den = 0 THEN PosInf
    ELSE IF s.den < 0 THEN Fin(RoundTiesEven(- (x.k * s.den + s.num), - s.den))
    ELSE Fin(RoundTiesEven(x.k * s.den + s.num, s.den))

\* linspace: step = (stop - start) / (divisor - T::from_f32(1.0).unwrap())
LinspaceStep(len, start, stop) == FDiv(FSub(stop, start), FromUsize(len) - 1)

\* Mutant of EndpointCorrect: stop is appended only, never written over the
\* last accumulated element.
EndpointAppendOnly(elems, len, stop, build) ==
    IF Len(elems) = len THEN Ok(elems) ELSE Ok(Append(elems, stop))

\* linspace: "Include the `stop` value in the generated sequences".
\* With len = 0 the index len - 1 of `elements[len - 1] = stop` overflows
\* usize: a build that checks overflow panics at the subtraction, one that
\* does not indexes the empty Vec with usize::MAX.
EndpointCorrect(elems, len, stop, build) ==
    IF Len(elems) = len
    THEN IF len = 0
         THEN IF build = "debug"
              THEN Panic("attempt to subtract with overflow", <<>>)
              ELSE Panic("index out of bounds", <<Len(elems), UsizeMax>>)
         ELSE Ok([elems EXCEPT ![len] = stop])
    ELSE Ok(Append(elems, stop))

(***************************************************************************)
(* Shaped builders of nested Vecs: Vec::one_dim(n), Vec::two_dim(n, m),    *)
(* Vec::three_dim(..), Vec::four_dim(..) followed by .ones().  A shape is  *)
(* the sequence of the extents given to the builder.                       *)
(***************************************************************************)
\* The element types One is implemented for.
OneTypes == {"u8", "u16", "u32", "u64", "u128",
             "i8", "i16", "i32", "i64", "i128", "f32", "f64"}

Shapes == UNION {[1..d -> 0..MaxExtent] : d \in 1..MaxDepth}

\* self.full(value) on a builder of the given shape: the one-dimensional
\* fill applied at every nesting depth.
RECURSIVE NestedFull(_, _)
NestedFull(shape, value) ==
    IF Len(shape) = 0 THEN value
    ELSE [i \in 1..Head(shape) |-> NestedFull(Tail(shape), value)]

\* The literal ones() passes to full: 1 for the integer types and 1.0, the
\* same number, for the floats.
OneLiteral(ty) == 1

\* Mutant of NestedOnes: the builder is filled with zeros.
NestedOnesAsZeros(ty, shape) == NestedFull(shape, 0)

\* impl One for Vec<..>: self.full(1), self.full(1.0)
NestedOnes(ty, shape) == NestedFull(shape, OneLiteral(ty))

\* let arr: Vec<..<ty>..> = Vec::one_dim(..).ones(), and so for two_dim,
\* three_dim and four_dim
CallNestedOnes(ty, shape) ==
    /\ op = NoCall
    /\ Returns([name |-> "nested_ones", ty |-> ty, shape |-> shape],
               Ok(NestedOnes(ty, shape)))

OnesNext == \E ty \in OneTypes, shape \in Shapes : CallNestedOnes(ty, shape)

\* The caller of the shaped builders, specification OnesSpec: one call of
\* ones() on one builder.
OnesSpec == Init /\ [][OnesNext]_vars

(***************************************************************************)
(* The caller, specification SeqSpec: it calls range and linspace.  A call *)
(* either panics at once or enters its loop; the loop runs one iteration   *)
(* per step and the call returns when the loop condition fails.  The       *)
(* locals elements, current_step and step exist while the call runs.       *)
(***************************************************************************)
CallRange(start, stop, stp) ==
    /\ pc = "idle"
    /\ op' = [name |-> "range", start |-> start, stop |-> stop, step |-> stp]
    /\ IF RangeInvalid(start, stop)
       THEN /\ res' = Panic("Invalid range interval", <<start, stop>>)
            /\ UNCHANGED <<pc, current_step, elements, step>>
       ELSE /\ res' = Pending
            /\ elements' = <<>>
            /\ current_step' = start
            /\ step' = stp
            /\ pc' = "range"
    /\ UNCHANGED <<a, b>>

\* One iteration of `while current_step < stop`: elements.push(current_step);
\* current_step += step.  Where the sum does not fit T, a build that checks
\* overflow panics (the call ends, its locals are dropped) and one that does
\* not goes on with the wrapped sum.
RangeIterate(build) ==
    /\ pc = "range"
    /\ RangeContinue(current_step, op.stop)
    /\ step = 0 => Len(elements) < MaxIter
    /\ IF ~Fits(current_step + step) /\ build = "debug"
       THEN /\ res' = Panic("attempt to add with overflow", <<>>)
            /\ pc' = "idle"
            /\ elements' = <<>>
            /\ current_step' = 0
            /\ step' = 0
       ELSE /\ elements' = Append(elements, current_step)
            /\ current_step' = Wrap(current_step + step)
            /\ UNCHANGED <<res, pc, step>>
    /\ UNCHANGED <<a, b, op>>

RangeReturn ==
    /\ pc = "range"
    /\ ~RangeContinue(current_step, op.stop)
    /\ res' = Ok(elements)
    /\ pc' = "idle"
    /\ elements' = <<>>
    /\ current_step' = 0
    /\ step' = 0
    /\ UNCHANGED <<a, b, op>>

\* linspace(len, start, stop) for the finite floats start = Fin(from) and
\* stop = Fin(to).
CallLinspace(len, from, to) ==
    /\ pc = "idle"
    /\ LET start == Fin(from)
           stop == Fin(to)
       IN  /\ op' = [name |-> "linspace", len |-> len, start |-> start, stop |-> stop]
           /\ IF FGe(start, stop)
              THEN /\ res' = Panic("Invalid linspace interval", <<start, stop>>)
                   /\ UNCHANGED <<pc, current_step, elements, step>>
              ELSE /\ res' = Pending
                   /\ elements' = <<>>
                   /\ current_step' = start
                   /\ step' = LinspaceStep(len, start, stop)
                   /\ pc' = "linspace"
    /\ UNCHANGED <<a, b>>

LinspaceIterate ==
    /\ pc = "linspace"
    /\ FLt(current_step, op.stop)
    /\ Len(elements) < MaxIter
    /\ elements' = Append(elements, current_step)
    /\ current_step' = FAdd(current_step, step)
    /\ UNCHANGED <<a, b, op, res, pc, step>>

LinspaceReturn(build) ==
    /\ pc = "linspace"
    /\ ~FLt(current_step, op.stop)
    /\ res' = EndpointCorrect(elements, op.len, op.stop, build)
    /\ pc' = "idle"
    /\ elements' = <<>>
    /\ current_step' = 0
    /\ step' = 0
    /\ UNCHANGED <<a, b, op>>

SeqNext ==
    \/ \E start \in RangeVals, stop \in RangeVals, stp \in Steps :
          CallRange(start, stop, stp)
    \/ \E build \in Builds : RangeIterate(build)
    \/ RangeReturn
    \/ \E len \in LinLens, from \in LinVals, to \in LinVals :
          CallLinspace(len, from, to)
    \/ LinspaceIterate
    \/ \E build \in Builds : LinspaceReturn(build)

SeqSpec == Init /\ [][SeqNext]_vars

(***************************************************************************)
(* Claims about range and linspace, checked under SeqSpec.                 *)
(***************************************************************************)
\* The least n with start + n * stp >= stop, for start < stop and stp > 0.
RangeCount(start, stop, stp) ==
    CHOOSE n \in 0..(stop - start) :
        /\ start + n * stp >= stop
        /\ \A m \in 0..(n - 1) : start + m * stp < stop

\* [start, start + stp, ..., start + (n - 1) * stp]
Progression(start, stp, n) == [i \in 1..n |-> start + (i - 1) * stp]

IsPrefix(s, t) == Len(s) <= Len(t) /\ \A i \in 1..Len(s) : s[i] = t[i]

\* C3: for start < stop and step > 0, range(start, stop, step) returns
\* exactly [start, start + step, ..., start + (n - 1) * step] with n the least
\* integer such that start + n * step >= stop: every start + k * step below
\* stop appears, stop never does, and each element is its predecessor plus
\* step.  While the loop runs it has built a prefix of that vector.
C3_RangeHalfOpen ==
    (op.name = "range" /\ op.start < op.stop /\ op.step > 0) =>
        LET n == RangeCount(op.start, op.stop, op.step)
            expected == Progression(op.start, op.step, n)
        IN  /\ res.kind \in {"pending", "ok"}
            /\ res.kind = "pending" =>
                  /\ pc = "range"
                  /\ IsPrefix(elements, expected)
                  /\ current_step = op.start + Len(elements) * op.step
            /\ res.kind = "ok" =>
                  /\ pc = "idle"
                  /\ res.v = expected
                  /\ \A k \in 0..(op.stop - op.start) :
                        op.start + k * op.step < op.stop =>
                            \E i \in 1..Len(res.v) : res.v[i] = op.start + k * op.step
                  /\ \A i \in 1..Len(res.v) : res.v[i] # op.stop
                  /\ \A i \in 2..Len(res.v) : res.v[i] = res.v[i - 1] + op.step

\* C4: range and linspace fail with the invalid-interval panic whenever
\* start >= stop (start = stop included), for every step and every len; the
\* check comes before any element is generated: the loop is never entered
\* and no vector, empty or partial, is returned.
C4_InvalidIntervalPanics ==
    /\ (op.name = "range" /\ op.start >= op.stop) =>
          /\ res = Panic("Invalid range interval", <<op.start, op.stop>>)
          /\ pc = "idle"
          /\ elements = <<>>
    /\ (op.name = "linspace" /\ op.start.k >= op.stop.k) =>
          /\ res = Panic("Invalid linspace interval", <<op.start, op.stop>>)
          /\ pc = "idle"
          /\ elements = <<>>
    /\ pc = "range" => op.name = "range" /\ op.start < op.stop
    /\ pc = "linspace" => op.name = "linspace" /\ op.start.k < op.stop.k

\* range has been called with start = stop and a positive step, and panicked.
C4_Witness ==
    /\ op.name = "range"
    /\ op.start = op.stop
    /\ op.step > 0
    /\ res.kind = "panic"

LinspaceReturned ==
    op.name = "linspace" /\ op.start.k < op.stop.k /\ res.kind # "pending"

\* C5: for every len and every start < stop, linspace(len, start, stop)
\* returns a vector of exactly len elements whose last element is exactly
\* stop.
C5_LinspaceExactLen ==
    LinspaceReturned =>
        /\ res.kind = "ok"
        /\ Len(res.v) = op.len
        /\ Len(res.v) > 0
        /\ res.v[Len(res.v)] = op.stop

\* C6, as stated: for every len >= 1 and start < stop, the first element of
\* linspace(len, start, stop) is exactly start and the last exactly stop.
C6_EndpointsFromLenOne ==
    (LinspaceReturned /\ op.len >= 1) =>
        /\ res.kind = "ok"
        /\ Len(res.v) > 0
        /\ res.v[1] = op.start
        /\ res.v[Len(res.v)] = op.stop

\* C6, amended: for every len >= 2 and start < stop, the first element of
\* the vector linspace(len, start, stop) returns is exactly start and the
\* last exactly stop.
C6_EndpointsFromLenTwo ==
    (LinspaceReturned /\ op.len >= 2) =>
        /\ res.kind = "ok"
        /\ Len(res.v) >= 2
        /\ res.v[1] = op.start
        /\ res.v[Len(res.v)] = op.stop

\* linspace has returned len >= 3 elements, start first and stop last, after
\* the loop itself produced len elements (the last one was overwritten: its
\* predecessor is less than one whole step below it).
C6_Witness ==
    /\ LinspaceReturned
    /\ op.len >= 3
    /\ res.kind = "ok"
    /\ Len(res.v) = op.len
    /\ res.v[1] = op.start
    /\ res.v[op.len] = op.stop
    /\ res.v[op.len].k - res.v[op.len - 1].k = 2

\* C25: every call of range and of linspace leaves its loop, for every
\* step and every len: no iteration of `while current_step < stop` leaves
\* current_step at a value the loop has had before.  (The step of a call
\* never changes, so the loop does from a value of current_step what it did
\* from it the first time: a loop that comes back to a value goes round for
\* ever, and one that never does runs out of the finitely many values of T
\* and exits or fails.  The values the loop has had are those it pushed.)
C25_EveryIterationAdvances ==
    /\ [][(pc = "range" /\ pc' = "range") =>
              \A i \in 1..Len(elements') : elements'[i] # current_step']_vars
    /\ [][(pc = "linspace" /\ pc' = "linspace") =>
              \A i \in 1..Len(elements') : elements'[i] # current_step']_vars

\* start plus i additions of stp, each one rounded as the loop rounds it.
RECURSIVE Accumulated(_, _, _)
Accumulated(start, stp, i) ==
    IF i = 0 THEN start ELSE FAdd(Accumulated(start, stp, i - 1), stp)

\* No addition of a multiple of the step rounds: the step is a whole number
\* of units of the grid.
ExactArithmetic(stp) == stp.den > 0 /\ stp.num % stp.den = 0

\* C27: for len >= 2 and start < stop, linspace(len, start, stop) has len
\* elements, element i being start plus i additions of step for every i in
\* 0..len-2 and element len-1 being stop; where the arithmetic is exact the
\* loop leaves len-1 elements and stop is appended to them.
C27_LinspaceElements ==
    /\ []((LinspaceReturned /\ op.len >= 2) =>
            /\ res.kind = "ok"
            /\ Len(res.v) = op.len
            /\ \A i \in 0..(op.len - 2) :
                  At(res.v, i) =
                      Accumulated(op.start, LinspaceStep(op.len, op.start, op.stop), i)
            /\ At(res.v, op.len - 1) = op.stop)
    /\ [][(pc = "linspace" /\ pc' = "idle" /\ op.len >= 2 /\ ExactArithmetic(step)) =>
            /\ Len(elements) = op.len - 1
            /\ res' = Ok(Append(elements, op.stop))]_vars

\* C30: whenever range(start, stop, step) returns a vector, the vector is
\* not empty and its first element is start; if step > 0 as well, its
\* elements are strictly increasing and every one of them is >= start and
\* < stop.
C30_RangeNonEmptyBelowStop ==
    (op.name = "range" /\ res.kind = "ok") =>
        /\ Len(res.v) >= 1
        /\ res.v[1] = op.start
        /\ op.step > 0 =>
              /\ \A i \in 2..Len(res.v) : res.v[i - 1] < res.v[i]
              /\ \A i \in 1..Len(res.v) : op.start <= res.v[i] /\ res.v[i] < op.stop

(***************************************************************************)
(* Claim about the shaped builders, checked under OnesSpec.                *)
(***************************************************************************)
\* v has the extents of the shape at every depth and leaf at every leaf.
RECURSIVE IsFilled(_, _, _)
IsFilled(v, shape, leaf) ==
    IF Len(shape) = 0 THEN v = leaf
    ELSE /\ Len(v) = Head(shape)
         /\ \A i \in 1..Head(shape) : IsFilled(v[i], Tail(shape), leaf)

\* ones() on a builder of depth 1 to 4 returns what full(1) returns on it:
\* a nested vector of the extents of the shape, one at every leaf.
OnesIsFullOfOne ==
    op.name = "nested_ones" =>
        /\ Len(op.shape) \in 1..4
        /\ res = Ok(NestedFull(op.shape, 1))
        /\ IsFilled(res.v, op.shape, 1)

\* C28, as claimed: there are 13 element types, and for each of them and
\* each nesting depth 1 to 4 ones() returns what full(1) returns, a nested
\* vector of the extents of the shape with one at every leaf.
C28_OnesOnThirteenTypes ==
    /\ Cardinality(OneTypes) = 13
    /\ OnesIsFullOfOne

\* C28, amended: there are 12 element types (u8 to u128, i8 to i128, f32
\* and f64), and for each of them and each nesting depth 1 to 4 ones()
\* returns what full(1) returns, a nested vector of the extents of the
\* shape with one at every leaf.
C28_OnesOnTwelveTypes ==
    /\ Cardinality(OneTypes) = 12
    /\ op.name = "nested_ones" => op.ty \in OneTypes
    /\ OnesIsFullOfOne

\* ones() has come back on a four-dimensional builder of floats with every
\* extent at least 2.
C28_Witness ==
    /\ op.name = "nested_ones"
    /\ op.ty = "f64"
    /\ Len(op.shape) = MaxDepth
    /\ \A d \in 1..MaxDepth : op.shape[d] >= 2
    /\ res.v[1][2][1][2] = 1

(***************************************************************************)
(* Compound assignment.  `a op= other` takes `&mut self`: the elements of  *)
(* self are written in place, nothing is returned.  Each operator gives    *)
(* what the call comes back with (`res`) and what self.elements holds      *)
(* afterwards (`elements`).  The vector-vector forms check the lengths     *)
(* before the loop; the panic message of all three is the one of addition, *)
(* as in the source.                                                       *)
(***************************************************************************)
\* A call that returns () has returned.
Done == [kind |-> "ok"]

\* Mutant of AddAssign: self.elements is replaced by the sums of the zipped
\* operands, as many as the shorter operand has.
AddAssignZipped(self, other) ==
    LET n == IF VLen(self) < VLen(other) THEN VLen(self) ELSE VLen(other)
    IN  [res |-> Done, elements |-> [i \in 1..n |-> self[i] + At(other, i - 1)]]

\* impl ops::AddAssign<Vector<T>> for Vector<T>
AddAssign(self, other) ==
    IF VLen(self) # VLen(other)
    THEN [res |-> Panic("Vector addition with invalid length", <<VLen(self), VLen(other)>>),
          elements |-> self]
    ELSE [res |-> Done,
          elements |-> [i \in 1..VLen(self) |-> self[i] + At(other, i - 1)]]

\* Mutant of SubAssign: the loop runs over the indices both operands have
\* and the lengths are compared after it.
SubAssignCheckAfter(self, other) ==
    LET n == IF VLen(self) < VLen(other) THEN VLen(self) ELSE VLen(other)
        written == [i \in 1..VLen(self) |->
                       IF i <= n THEN self[i] - At(other, i - 1) ELSE self[i]]
    IN  IF VLen(self) # VLen(other)
        THEN [res |-> Panic("Vector addition with invalid length",
                            <<VLen(self), VLen(other)>>),
              elements |-> written]
        ELSE [res |-> Done, elements |-> written]

\* impl ops::SubAssign<Vector<T>> for Vector<T>
SubAssign(self, other) ==
    IF VLen(self) # VLen(other)
    THEN [res |-> Panic("Vector addition with invalid length", <<VLen(self), VLen(other)>>),
          elements |-> self]
    ELSE [res |-> Done,
          elements |-> [i \in 1..VLen(self) |-> self[i] - At(other, i - 1)]]

\* Mutant of MulAssign: the loop body of add_assign was left in, `*x += other[i]`.
MulAssignAdds(self, other) ==
    IF VLen(self) # VLen(other)
    THEN [res |-> Panic("Vector addition with invalid length", <<VLen(self), VLen(other)>>),
          elements |-> self]
    ELSE [res |-> Done,
          elements |-> [i \in 1..VLen(self) |-> self[i] + At(other, i - 1)]]

\* impl ops::MulAssign<Vector<T>> for Vector<T>
MulAssign(self, other) ==
    IF VLen(self) # VLen(other)
    THEN [res |-> Panic("Vector addition with invalid length", <<VLen(self), VLen(other)>>),
          elements |-> self]
    ELSE [res |-> Done,
          elements |-> [i \in 1..VLen(self) |-> self[i] * At(other, i - 1)]]

\* Mutant of AddAssignScalar: the loop starts at index 1.
AddAssignScalarFromOne(self, value) ==
    [res |-> Done,
     elements |-> [i \in 1..VLen(self) |-> IF i = 1 THEN self[i] ELSE self[i] + value]]

\* impl ops::AddAssign<T> for Vector<T>: for x in iter_mut() { *x += value }
AddAssignScalar(self, value) ==
    [res |-> Done, elements |-> [i \in 1..VLen(self) |-> self[i] + value]]

\* impl ops::SubAssign<T> for Vector<T>: for x in iter_mut() { *x -= value }
SubAssignScalar(self, value) ==
    [res |-> Done, elements |-> [i \in 1..VLen(self) |-> self[i] - value]]

\* impl ops::MulAssign<T> for Vector<T>: for x in iter_mut() { *x *= value }
MulAssignScalar(self, value) ==
    [res |-> Done, elements |-> [i \in 1..VLen(self) |-> self[i] * value]]

\* The loop `for x in iter_mut() { *x op= value }` on the element type T,
\* for r what the loop leaves where no `*x op= value` overflows.  Where one
\* does, a build that checks overflow panics at the first such element, the
\* elements before it written and the others not; a build that does not
\* leaves the wrapped result at every index.
OnElementType(self, r, operation, build) ==
    LET over == {i \in 1..VLen(self) : ~Fits(r.elements[i])}
    IN  IF over = {} THEN r
        ELSE IF build = "debug"
             THEN LET first == CHOOSE i \in over : \A j \in over : i <= j
                  IN  [res |-> Panic(operation, <<>>),
                       elements |-> [i \in 1..VLen(self) |->
                                        IF i < first THEN r.elements[i] ELSE self[i]]]
             ELSE [res |-> Done,
                   elements |-> [i \in 1..VLen(self) |-> Wrap(r.elements[i])]]

(***************************************************************************)
(* Indexing and slicing.  Both go through the indexing of the backing      *)
(* Vec, which panics when the index or the range does not fit.  An index   *)
(* is a usize.                                                             *)
(***************************************************************************)
\* Mutant of Index: an index past the end wraps around to a valid position.
IndexWrapping(self, i) ==
    IF VLen(self) = 0
    THEN Panic("index out of bounds", <<VLen(self), i>>)
    ELSE Ok(self[(i % VLen(self)) + 1])

\* impl ops::Index<usize> for Vector<T>: &self.elements[i]
Index(self, i) ==
    IF i < VLen(self)
    THEN Ok(At(self, i))
    ELSE Panic("index out of bounds", <<VLen(self), i>>)

\* What a range that does not fit a slice of length len panics with: the
\* start past the length is reported first, then the end past the length,
\* then a start after the end; what is left is an inclusive range whose end
\* is the length.
SliceIndexFail(start, end, len) ==
    IF start > len
    THEN Panic("range start index out of range", <<start, len>>)
    ELSE IF end > len
         THEN Panic("range end index out of range", <<end, len>>)
         ELSE IF start > end
              THEN Panic("slice index starts after its end", <<start, end>>)
              ELSE Panic("range end index out of range", <<end, len>>)

\* self.elements[start..end]: the bounds are checked, then the elements at
\* Rust indices start, .., end - 1 are taken.
IndexRange(elems, start, end) ==
    IF start <= end /\ end <= Len(elems)
    THEN Ok(SubSeq(elems, start + 1, end))
    ELSE SliceIndexFail(start, end, Len(elems))

\* self.elements[start..]
IndexRangeFrom(elems, start) ==
    IF start > Len(elems)
    THEN Panic("range start index out of range", <<start, Len(elems)>>)
    ELSE Ok(SubSeq(elems, start + 1, Len(elems)))

\* self.elements[start..=end]: for an end below the length, the range
\* start..end + 1; an end at or past the length (usize::MAX included) is
\* reported as it was given.
IndexRangeInclusive(elems, start, end) ==
    IF end < Len(elems)
    THEN IndexRange(elems, start, end + 1)
    ELSE SliceIndexFail(start, end, Len(elems))

\* Vector::from(slice.to_vec()) of a slice that was taken; a panic stays one.
ToVector(r) == IF r.kind = "ok" THEN Ok(FromVec(r.v)) ELSE r

\* impl Slice<ops::Range<usize>> for Vector<T>
SliceRange(self, start, end) == ToVector(IndexRange(self, start, end))

\* impl Slice<ops::RangeFrom<usize>> for Vector<T>
SliceRangeFrom(self, start) == ToVector(IndexRangeFrom(self, start))

\* impl Slice<ops::RangeTo<usize>> for Vector<T>
SliceRangeTo(self, end) == ToVector(IndexRange(self, 0, end))

\* impl Slice<ops::RangeFull> for Vector<T>
SliceRangeFull(self) == ToVector(Ok(self))

\* Mutant of SliceRangeInclusive: the upper bound is taken as exclusive.
SliceRangeInclusiveAsRange(self, start, end) ==
    ToVector(IndexRange(self, start, end))

\* impl Slice<ops::RangeInclusive<usize>> for Vector<T>
SliceRangeInclusive(self, start, end) ==
    ToVector(IndexRangeInclusive(self, start, end))

\* impl Slice<ops::RangeToInclusive<usize>> for Vector<T>
SliceRangeToInclusive(self, end) == ToVector(IndexRangeInclusive(self, 0, end))

(***************************************************************************)
(* Comparison.  eq and ne of Vector<T> compare the backing Vecs, and the   *)
(* Vec comparison is the one of slices: the lengths, then the elements     *)
(* from the front until a pair differs.                                    *)
(***************************************************************************)
RECURSIVE ElementsEqFrom(_, _, _)
ElementsEqFrom(x, y, i) ==
    IF i > Len(x) THEN TRUE
    ELSE IF x[i] # y[i] THEN FALSE
    ELSE ElementsEqFrom(x, y, i + 1)

\* Mutant of VecEq: the pairs both operands have are compared (a zip), the
\* lengths are not.
VecEqZip(x, y) ==
    LET n == IF Len(x) < Len(y) THEN Len(x) ELSE Len(y)
    IN  ElementsEqFrom(SubSeq(x, 1, n), SubSeq(y, 1, n), 1)

\* self.elements == other.elements
VecEq(x, y) == IF Len(x) # Len(y) THEN FALSE ELSE ElementsEqFrom(x, y, 1)

\* self.elements != other.elements
VecNe(x, y) == ~VecEq(x, y)

\* impl PartialEq for Vector<T>: fn eq
Eq(self, other) == IF VecNe(self, other) THEN FALSE ELSE TRUE

\* impl PartialEq for Vector<T>: fn ne
Ne(self, other) == IF VecEq(self, other) THEN FALSE ELSE TRUE

\* impl PartialEq<Vector<$t>> for [$t]: fn eq (self is the slice)
SliceEq(self, other) == IF VecNe(other, self) THEN FALSE ELSE TRUE

\* impl PartialEq<Vector<$t>> for [$t]: fn ne
SliceNe(self, other) == IF VecEq(other, self) THEN FALSE ELSE TRUE

(***************************************************************************)
(* power: num::pow on every element, exponentiation by squaring.           *)
(***************************************************************************)
\* while exp & 1 == 0 { base = base * base; exp >>= 1 }
RECURSIVE PowStrip(_, _)
PowStrip(base, exp) ==
    IF exp % 2 = 0 THEN PowStrip(base * base, exp \div 2) ELSE <<base, exp>>

\* Mutant of PowLoop: acc is multiplied in every round, the test of the low
\* bit is gone.
RECURSIVE PowLoopEveryBit(_, _, _)
PowLoopEveryBit(base, exp, acc) ==
    IF exp > 1
    THEN PowLoopEveryBit(base * base, exp \div 2, acc * (base * base))
    ELSE acc

\* while exp > 1 { exp >>= 1; base = base * base;
\*                 if exp & 1 == 1 { acc = acc * base } }
RECURSIVE PowLoop(_, _, _)
PowLoop(base, exp, acc) ==
    IF exp > 1
    THEN LET e == exp \div 2
             sq == base * base
         IN  PowLoop(sq, e, IF e % 2 = 1 THEN acc * sq ELSE acc)
    ELSE acc

\* num::pow(base, exp)
Pow(base, exp) ==
    IF exp = 0 THEN 1
    ELSE LET s == PowStrip(base, exp)
         IN  IF s[2] = 1 THEN s[1] ELSE PowLoop(s[1], s[2], s[1])

\* Vector::power: self.elements.iter().map(|x| num::pow(*x, exp)).collect()
Power(self, exp) == [i \in 1..VLen(self) |-> Pow(self[i], exp)]

(***************************************************************************)
(* filter.  The criteria closure is one of a family: a comparison of the   *)
(* element with a threshold, as `|x| x >= 2` in the tests.                 *)
(***************************************************************************)
Criteria(cmp, t, x) ==
    CASE cmp = "ge" -> x >= t
      [] cmp = "le" -> x <= t
      [] cmp = "lt" -> x < t
      [] cmp = "eq" -> x = t
      [] cmp = "ne" -> x # t

\* Mutant of FilterFrom: the iteration ends at the first element the
\* criteria rejects (take_while for filter).
RECURSIVE FilterFromTakeWhile(_, _, _, _, _)
FilterFromTakeWhile(elems, cmp, t, i, out) ==
    IF i > Len(elems) THEN out
    ELSE IF Criteria(cmp, t, elems[i])
         THEN FilterFromTakeWhile(elems, cmp, t, i + 1, Append(out, elems[i]))
         ELSE out

\* .iter().filter(|&&x| criteria(x)).map(|x| *x).collect(), from element i on
RECURSIVE FilterFrom(_, _, _, _, _)
FilterFrom(elems, cmp, t, i, out) ==
    IF i > Len(elems) THEN out
    ELSE FilterFrom(elems, cmp, t, i + 1,
                    IF Criteria(cmp, t, elems[i]) THEN Append(out, elems[i]) ELSE out)

\* Vector::filter
Filter(self, cmp, t) == FilterFrom(self, cmp, t, 1, <<>>)

(***************************************************************************)
(* uniform.  Uniform::new(low, high).sample(rng) gives a value of the      *)
(* half-open interval [low, high); the element type is an integer.  The    *)
(* loop `for _ in 0..len` is followed one sample per step.                 *)
(***************************************************************************)
\* What one sample can be.
Samples(low, high) == low..(high - 1)

\* Mutant of UniformContinue: the loop runs over 0..=len.
UniformContinueInclusive(n, len) == n <= len

\* for _ in 0..len, after n rounds
UniformContinue(n, len) == n < len

(***************************************************************************)
(* Reductions: sum, max, min.                                              *)
(***************************************************************************)
None == [some |-> FALSE]
Some(v) == [some |-> TRUE, v |-> v]

\* Option::unwrap
Unwrap(o) ==
    IF o.some THEN Ok(o.v)
    ELSE Panic("called Option::unwrap() on a None value", <<>>)

\* .fold(init, |acc, x| acc + *x): the accumulator after the elements from
\* Rust index i on have been added to acc, one after the other.
RECURSIVE SumFold(_, _, _)
SumFold(elems, i, acc) ==
    IF i >= Len(elems) THEN acc
    ELSE SumFold(elems, i + 1, acc + At(elems, i))

\* Mutant of Sum: the fold starts from one.
SumFromOne(self) == SumFold(self, 0, 1)

\* pub fn sum(&self): the fold starts from T::from_f32(0.0).unwrap()
Sum(self) == SumFold(self, 0, 0)

\* Iterator::max over the elements from Rust index i on, best being the
\* greatest so far: of two equal elements the later one is kept.
RECURSIVE MaxFrom(_, _, _)
MaxFrom(elems, i, best) ==
    IF i >= Len(elems) THEN best
    ELSE MaxFrom(elems, i + 1, IF best > At(elems, i) THEN best ELSE At(elems, i))

\* Mutant of MinFrom: the later element is kept whatever it is.
RECURSIVE MinFromKeepsLast(_, _, _)
MinFromKeepsLast(elems, i, best) ==
    IF i >= Len(elems) THEN best
    ELSE MinFromKeepsLast(elems, i + 1, At(elems, i))

\* Iterator::min: of two equal elements the earlier one is kept.
RECURSIVE MinFrom(_, _, _)
MinFrom(elems, i, best) ==
    IF i >= Len(elems) THEN best
    ELSE MinFrom(elems, i + 1, IF best > At(elems, i) THEN At(elems, i) ELSE best)

\* pub fn max(&self), pub fn min(&self): self.elements.iter().max() and
\* .min() are None for no elements
Max(self) == Unwrap(IF Len(self) = 0 THEN None ELSE Some(MaxFrom(self, 1, At(self, 0))))
Min(self) == Unwrap(IF Len(self) = 0 THEN None ELSE Some(MinFrom(self, 1, At(self, 0))))

(***************************************************************************)
(* Iteration.                                                              *)
(***************************************************************************)
\* Mutant of IntoIterNext: the items are taken from the back.
IntoIterNextBack(elems, n) ==
    IF n < Len(elems) THEN Some(elems[Len(elems) - n]) ELSE None

\* vec::IntoIter::next on the iterator self.elements.into_iter() returned,
\* n items having been taken from it.
IntoIterNext(elems, n) ==
    IF n < Len(elems) THEN Some(At(elems, n)) ELSE None

(***************************************************************************)
(* The caller, specification CallSpec: `let mut a = Vector::from(vec![..])`*)
(* and then one call on `a`.  The operations called here read `a` or       *)
(* write it once, so one call shows all a call can do.                     *)
(***************************************************************************)
InitFrom ==
    /\ a \in Vectors
    /\ b = <<>>
    /\ op = NoCall
    /\ res = [kind |-> "none"]
    /\ pc = "idle"
    /\ current_step = 0
    /\ elements = <<>>
    /\ step = 0

\* `a op= operand` has come back with r.res and left r.elements in `a`.
Assigns(name, operand, r) ==
    /\ a' = r.elements
    /\ op' = [name |-> name, x |-> a, y |-> operand]
    /\ res' = r.res
    /\ UNCHANGED <<b, pc, current_step, elements, step>>

CallAddAssign(other) ==
    /\ op = NoCall
    /\ Assigns("add_assign", other, AddAssign(a, other))

CallSubAssign(other) ==
    /\ op = NoCall
    /\ Assigns("sub_assign", other, SubAssign(a, other))

CallMulAssign(other) ==
    /\ op = NoCall
    /\ Assigns("mul_assign", other, MulAssign(a, other))

CallAddAssignScalar(s, build) ==
    /\ op = NoCall
    /\ Assigns("add_assign_scalar", s,
               OnElementType(a, AddAssignScalar(a, s),
                             "attempt to add with overflow", build))

CallSubAssignScalar(s, build) ==
    /\ op = NoCall
    /\ Assigns("sub_assign_scalar", s,
               OnElementType(a, SubAssignScalar(a, s),
                             "attempt to subtract with overflow", build))

CallMulAssignScalar(s, build) ==
    /\ op = NoCall
    /\ Assigns("mul_assign_scalar", s,
               OnElementType(a, MulAssignScalar(a, s),
                             "attempt to multiply with overflow", build))

CallIndex(i) ==
    /\ op = NoCall
    /\ Returns([name |-> "index", x |-> a, i |-> i], Index(a, i))

\* The six forms of a.slice(..); a form that has no start or no end is
\* called with the bound it resolves to left out of the call.
CallSliceRange(start, end) ==
    /\ op = NoCall
    /\ Returns([name |-> "slice", form |-> "a..b", x |-> a, start |-> start, end |-> end],
               SliceRange(a, start, end))

CallSliceRangeFrom(start) ==
    /\ op = NoCall
    /\ Returns([name |-> "slice", form |-> "a..", x |-> a, start |-> start],
               SliceRangeFrom(a, start))

CallSliceRangeTo(end) ==
    /\ op = NoCall
    /\ Returns([name |-> "slice", form |-> "..b", x |-> a, end |-> end],
               SliceRangeTo(a, end))

CallSliceRangeFull ==
    /\ op = NoCall
    /\ Returns([name |-> "slice", form |-> "..", x |-> a], SliceRangeFull(a))

CallSliceRangeInclusive(start, end) ==
    /\ op = NoCall
    /\ Returns([name |-> "slice", form |-> "a..=b", x |-> a, start |-> start, end |-> end],
               SliceRangeInclusive(a, start, end))

CallSliceRangeToInclusive(end) ==
    /\ op = NoCall
    /\ Returns([name |-> "slice", form |-> "..=b", x |-> a, end |-> end],
               SliceRangeToInclusive(a, end))

CallEq(other) ==
    /\ op = NoCall
    /\ Returns([name |-> "eq", x |-> a, y |-> other], Ok(Eq(a, other)))

CallNe(other) ==
    /\ op = NoCall
    /\ Returns([name |-> "ne", x |-> a, y |-> other], Ok(Ne(a, other)))

\* slice == a and slice != a, for a raw slice of elements
CallSliceEq(slice) ==
    /\ op = NoCall
    /\ Returns([name |-> "slice_eq", x |-> slice, y |-> a], Ok(SliceEq(slice, a)))

CallSliceNe(slice) ==
    /\ op = NoCall
    /\ Returns([name |-> "slice_ne", x |-> slice, y |-> a], Ok(SliceNe(slice, a)))

CallPower(exp) ==
    /\ op = NoCall
    /\ Returns([name |-> "power", x |-> a, exp |-> exp], Ok(Power(a, exp)))

CallFilter(cmp, t) ==
    /\ op = NoCall
    /\ Returns([name |-> "filter", x |-> a, cmp |-> cmp, t |-> t], Ok(Filter(a, cmp, t)))

\* Vector::uniform(len, low, high), up to the loop: Uniform::new(low, high)
\* panics unless low < high, whatever len is; its message prints no value.
CallUniform(len, low, high) ==
    /\ op = NoCall
    /\ pc = "idle"
    /\ op' = [name |-> "uniform", len |-> len, low |-> low, high |-> high]
    /\ IF low < high
       THEN /\ res' = Pending
            /\ elements' = <<>>
            /\ pc' = "uniform"
       ELSE /\ res' = Panic("Uniform::new called with low >= high", <<>>)
            /\ UNCHANGED <<pc, elements>>
    /\ UNCHANGED <<a, b, current_step, step>>

\* elements.push(uniform_distribution.sample(&mut rng))
UniformIterate(sample) ==
    /\ pc = "uniform"
    /\ UniformContinue(Len(elements), op.len)
    /\ sample \in Samples(op.low, op.high)
    /\ elements' = Append(elements, sample)
    /\ UNCHANGED <<a, b, op, res, pc, current_step, step>>

\* Vector { elements }
UniformReturn ==
    /\ pc = "uniform"
    /\ ~UniformContinue(Len(elements), op.len)
    /\ res' = Ok(elements)
    /\ elements' = <<>>
    /\ pc' = "idle"
    /\ UNCHANGED <<a, b, op, current_step, step>>

CallSum ==
    /\ op = NoCall
    /\ Returns([name |-> "sum", x |-> a], Ok(Sum(a)))

CallMax ==
    /\ op = NoCall
    /\ Returns([name |-> "max", x |-> a], Max(a))

CallMin ==
    /\ op = NoCall
    /\ Returns([name |-> "min", x |-> a], Min(a))

\* a.into_iter().collect::<Vector<_>>(): `a` is moved into the iterator
\* and from_iter starts with let mut v = Vec::new()
CallCollect ==
    /\ op = NoCall
    /\ pc = "idle"
    /\ op' = [name |-> "collect", x |-> a]
    /\ res' = Pending
    /\ elements' = <<>>
    /\ current_step' = 0
    /\ pc' = "iter"
    /\ UNCHANGED <<a, b, step>>

\* for i in iter { v.push(i) }: one item taken and pushed
CollectIterate ==
    /\ pc = "iter"
    /\ IntoIterNext(op.x, current_step).some
    /\ elements' = Append(elements, IntoIterNext(op.x, current_step).v)
    /\ current_step' = current_step + 1
    /\ UNCHANGED <<a, b, op, res, pc, step>>

\* the iterator has ended: Vector::from(v)
CollectReturn ==
    /\ pc = "iter"
    /\ ~IntoIterNext(op.x, current_step).some
    /\ res' = Ok(FromVec(elements))
    /\ pc' = "idle"
    /\ UNCHANGED <<a, b, op, current_step, elements, step>>

CallNext ==
    \/ \E other \in Vectors : CallAddAssign(other)
    \/ \E other \in Vectors : CallSubAssign(other)
    \/ \E other \in Vectors : CallMulAssign(other)
    \/ \E s \in Scalars, build \in Builds : CallAddAssignScalar(s, build)
    \/ \E s \in Scalars, build \in Builds : CallSubAssignScalar(s, build)
    \/ \E s \in Scalars, build \in Builds : CallMulAssignScalar(s, build)
    \/ \E i \in Usizes : CallIndex(i)
    \/ \E start \in Usizes, end \in Usizes : CallSliceRange(start, end)
    \/ \E start \in Usizes : CallSliceRangeFrom(start)
    \/ \E end \in Usizes : CallSliceRangeTo(end)
    \/ CallSliceRangeFull
    \/ \E start \in Usizes, end \in Usizes : CallSliceRangeInclusive(start, end)
    \/ \E end \in Usizes : CallSliceRangeToInclusive(end)
    \/ \E other \in Vectors : CallEq(other)
    \/ \E other \in Vectors : CallNe(other)
    \/ \E slice \in Vectors : CallSliceEq(slice)
    \/ \E slice \in Vectors : CallSliceNe(slice)
    \/ \E exp \in Exps : CallPower(exp)
    \/ \E cmp \in Cmps, t \in Elems : CallFilter(cmp, t)
    \/ \E len \in Lens, low \in UniformVals, high \in UniformVals : CallUniform(len, low, high)
    \/ \E sample \in UniformVals : UniformIterate(sample)
    \/ UniformReturn
    \/ CallSum
    \/ CallMax
    \/ CallMin
    \/ CallCollect
    \/ CollectIterate
    \/ CollectReturn

CallSpec == InitFrom /\ [][CallNext]_vars

\* The caller of the vector-scalar compound assignments, specification
\* ScalarSpec: `let mut a = Vector::from(vec![..])` and then one `a op= s`
\* with a scalar s from the whole of the element type, T::MIN and T::MAX
\* included.
ScalarNext ==
    \/ \E s \in TypeScalars, build \in Builds : CallAddAssignScalar(s, build)
    \/ \E s \in TypeScalars, build \in Builds : CallSubAssignScalar(s, build)
    \/ \E s \in TypeScalars, build \in Builds : CallMulAssignScalar(s, build)

ScalarSpec == InitFrom /\ [][ScalarNext]_vars

(***************************************************************************)
(* Claims about one call on a vector, checked under CallSpec.              *)
(***************************************************************************)
VecVecAssignOps == {"add_assign", "sub_assign", "mul_assign"}
ScalarAssignOps == {"add_assign_scalar", "sub_assign_scalar", "mul_assign_scalar"}

\* What the non-assignment operator of the same kind returns.
NonAssign(name, x, y) ==
    CASE name = "add_assign" -> Add(x, y)
      [] name = "sub_assign" -> Sub(x, y)
      [] name = "mul_assign" -> Mul(x, y)
      [] name = "add_assign_scalar" -> Ok(AddScalar(x, y))
      [] name = "sub_assign_scalar" -> Ok(SubScalar(x, y))
      [] name = "mul_assign_scalar" -> Ok(MulScalar(x, y))

\* C11: after `a op= b` with equal lengths the vector a is the vector that
\* `a_before op b` returns, for op in + - *; after `a op= s` with a scalar s
\* it is the vector `a_before op s` returns.
C11_AssignAgreesWithOperator ==
    /\ (op.name \in VecVecAssignOps /\ Len(op.x) = Len(op.y)) =>
          /\ res = Done
          /\ Ok(a) = NonAssign(op.name, op.x, op.y)
    /\ op.name \in ScalarAssignOps =>
          /\ res = Done
          /\ Ok(a) = NonAssign(op.name, op.x, op.y)

\* `a *= b` has run on operands of the longest length, with a result that is
\* neither a_before nor what `+=` would have left.
C11_Witness ==
    /\ op.name = "mul_assign"
    /\ Len(op.x) = MaxLen /\ Len(op.y) = MaxLen
    /\ res = Done
    /\ a # op.x
    /\ a # AddAssign(op.x, op.y).elements
    /\ a[1] # a[MaxLen]

\* The scalar operator a vector-scalar compound assignment applies.
ScalarAssign(name, x, s) ==
    CASE name = "add_assign_scalar" -> x + s
      [] name = "sub_assign_scalar" -> x - s
      [] name = "mul_assign_scalar" -> x * s

\* C12: v += s, v -= s and v *= s complete without error for every vector v,
\* the empty one included, and every scalar s of the element type, and set
\* every element v[i] to v[i] op s.
C12_ScalarAssignNeverFails ==
    op.name \in ScalarAssignOps =>
        /\ res.kind = "ok"
        /\ Len(a) = Len(op.x)
        /\ \A i \in 1..Len(op.x) : a[i] = ScalarAssign(op.name, op.x[i], op.y)
        /\ (op.x = <<>> => a = <<>>)

\* C13: a += b, a -= b and a *= b with a.len() # b.len() panic with a
\* length mismatch that carries both lengths, as the non-assignment operator
\* does, and a holds what it held before the call: no element was written.
C13_AssignMismatchWritesNothing ==
    (op.name \in VecVecAssignOps /\ Len(op.x) # Len(op.y)) =>
        /\ res.kind = "panic"
        /\ res.msg \in LengthMismatchMsgs
        /\ res.args = <<Len(op.x), Len(op.y)>>
        /\ NonAssign(op.name, op.x, op.y).kind = "panic"
        /\ res.args = NonAssign(op.name, op.x, op.y).args
        /\ a = op.x

\* `a -= b` has panicked on a non-empty b shorter than a whose subtraction
\* would have changed the first element.
C13_Witness ==
    /\ op.name = "sub_assign"
    /\ Len(op.y) > 0 /\ Len(op.x) > Len(op.y)
    /\ op.y[1] # 0
    /\ res.kind = "panic"
    /\ a = op.x

\* C14: v[i] is the element at position i for every i < v.len(); for every
\* i >= v.len(), so for every index into an empty vector, it panics and
\* gives no element: an index past the end never wraps around.
C14_IndexInBoundsOrPanics ==
    op.name = "index" =>
        IF op.i < Len(op.x)
        THEN res = Ok(op.x[op.i + 1])
        ELSE /\ res.kind = "panic"
             /\ "v" \notin DOMAIN res

\* A vector of the longest length has been indexed at its length or past
\* it, at an index that a wrap-around would map into the vector.
C14_Witness ==
    /\ op.name = "index"
    /\ Len(op.x) = MaxLen
    /\ op.i >= Len(op.x)
    /\ res.kind = "panic"

\* The half-open bounds [begin, end) a slice call resolves to.
SliceBegin(call) ==
    IF call.form \in {"a..b", "a..", "a..=b"} THEN call.start ELSE 0

SliceEnd(call) ==
    CASE call.form \in {"a..b", "..b"} -> call.end
      [] call.form \in {"a..=b", "..=b"} -> call.end + 1
      [] call.form \in {"a..", ".."} -> Len(call.x)

\* C15: for each of the six range forms, slice succeeds if and only if
\* begin <= end <= v.len(); then it returns a vector of length end - begin
\* whose element j is v[begin + j] (the whole of v for 0..len, the empty
\* vector for begin = end); otherwise it panics and returns nothing.
C15_SliceBounds ==
    op.name = "slice" =>
        LET begin == SliceBegin(op)
            end == SliceEnd(op)
            fits == begin <= end /\ end <= Len(op.x)
        IN  /\ fits <=> res.kind = "ok"
            /\ fits =>
                  /\ Len(res.v) = end - begin
                  /\ \A j \in 0..(end - begin - 1) : res.v[j + 1] = op.x[begin + j + 1]
                  /\ (begin = 0 /\ end = Len(op.x) => res.v = op.x)
                  /\ (begin = end => res.v = <<>>)
            /\ ~fits => res.kind = "panic" /\ "v" \notin DOMAIN res

\* An inclusive range that starts after the first element and ends at the
\* last one has been sliced out of a vector of the longest length.
C15_Witness ==
    /\ op.name = "slice" /\ op.form = "a..=b"
    /\ Len(op.x) = MaxLen
    /\ op.start >= 1 /\ op.end = MaxLen - 1
    /\ res.kind = "ok"
    /\ Len(res.v) = MaxLen - op.start
    /\ res.v[Len(res.v)] = op.x[MaxLen]

\* Same length and the same element at every index.
SameElements(x, y) == Len(x) = Len(y) /\ \A i \in 1..Len(x) : x[i] = y[i]

\* C17: a == b is true exactly when a and b have the same length and the
\* same element at every index, and a != b is its negation; so it is for a
\* raw slice compared with a vector.
C17_EqualityIsElementwise ==
    /\ op.name \in {"eq", "slice_eq"} => res = Ok(SameElements(op.x, op.y))
    /\ op.name \in {"ne", "slice_ne"} => res = Ok(~SameElements(op.x, op.y))

\* A vector has been compared with a non-empty proper prefix of itself and
\* found different.
C17_Witness ==
    /\ op.name = "eq"
    /\ Len(op.y) > 0 /\ Len(op.y) < Len(op.x)
    /\ \A i \in 1..Len(op.y) : op.x[i] = op.y[i]
    /\ res = Ok(FALSE)

\* C18: for low < high, uniform(len, low, high) returns exactly len elements
\* and every element of every outcome of the draws is in [low, high): low
\* can occur, high cannot.
C18_UniformInHalfOpenInterval ==
    /\ (op.name = "uniform" /\ op.low < op.high /\ pc = "idle") =>
          /\ res.kind = "ok"
          /\ Len(res.v) = op.len
          /\ \A i \in 1..Len(res.v) : op.low <= res.v[i] /\ res.v[i] < op.high
    /\ pc = "uniform" =>
          /\ Len(elements) <= op.len
          /\ \A i \in 1..Len(elements) : op.low <= elements[i] /\ elements[i] < op.high

\* uniform has returned a vector of the longest length, drawn from an
\* interval of more than one value, that holds low and high - 1.
C18_Witness ==
    /\ op.name = "uniform" /\ pc = "idle"
    /\ op.len = MaxLen
    /\ op.high - op.low >= 2
    /\ res.kind = "ok"
    /\ \E i \in 1..Len(res.v) : res.v[i] = op.low
    /\ \E i \in 1..Len(res.v) : res.v[i] = op.high - 1

\* x multiplied by itself: the product of exp factors x.
RECURSIVE RepeatedProduct(_, _)
RepeatedProduct(x, exp) == IF exp = 0 THEN 1 ELSE x * RepeatedProduct(x, exp - 1)

\* C19: v.power(exp) has the length of v and its element i is the product
\* of exp factors v[i]; power(0) is 1 at every index, also where v[i] = 0,
\* and power(1) equals v.
C19_PowerIsRepeatedProduct ==
    op.name = "power" =>
        /\ res.kind = "ok"
        /\ Len(res.v) = Len(op.x)
        /\ \A i \in 1..Len(op.x) : res.v[i] = RepeatedProduct(op.x[i], op.exp)
        /\ (op.exp = 0 => \A i \in 1..Len(op.x) : res.v[i] = 1)
        /\ (op.exp = 1 => res.v = op.x)

\* An exponent with a zero bit between two one bits (5 = 101b) has been
\* applied to a vector that holds a 2.
C19_Witness ==
    /\ op.name = "power"
    /\ op.exp = 5
    /\ \E i \in 1..Len(op.x) : op.x[i] = 2 /\ res.v[i] = 32

\* The indices of v whose element the criteria accepts.
Kept(call) == {i \in 1..Len(call.x) : Criteria(call.cmp, call.t, call.x[i])}

\* The k-th smallest member of a set of indices.
KthOf(idx, k) == CHOOSE i \in idx : Cardinality({j \in idx : j <= i}) = k

\* C20: v.filter(p) is the subsequence of v of the elements p accepts:
\* every accepted occurrence is kept, duplicates too, no rejected element
\* is kept, the order is the index order, and the length is within
\* 0..v.len().
C20_FilterIsSubsequence ==
    op.name = "filter" =>
        /\ res.kind = "ok"
        /\ Len(res.v) = Cardinality(Kept(op))
        /\ Len(res.v) <= Len(op.x)
        /\ \A k \in 1..Len(res.v) : res.v[k] = op.x[KthOf(Kept(op), k)]

\* A filter has kept two equal elements from both sides of a rejected one.
C20_Witness ==
    /\ op.name = "filter"
    /\ Len(op.x) = MaxLen
    /\ Kept(op) = {1, MaxLen}
    /\ op.x[1] = op.x[MaxLen]
    /\ res = Ok(<<op.x[1], op.x[MaxLen]>>)

\* ((0 + v[0]) + v[1]) + ... + v[n - 1]
RECURSIVE LeftSum(_, _)
LeftSum(v, n) == IF n = 0 THEN 0 ELSE LeftSum(v, n - 1) + v[n]

\* C21: v.sum() is the left fold ((0 + v[0]) + v[1]) + ... + v[len - 1]
\* that starts from the additive identity, and 0 for the empty vector.
C21_SumIsLeftFold ==
    op.name = "sum" =>
        /\ res = Ok(LeftSum(op.x, Len(op.x)))
        /\ Len(op.x) = 0 => res = Ok(0)

\* The sum of a vector of the longest length, of elements that differ, has
\* come back, and it is not zero.
C21_Witness ==
    /\ op.name = "sum"
    /\ Len(op.x) = MaxLen
    /\ op.x[1] # op.x[2]
    /\ res.kind = "ok" /\ res.v # 0

\* C22: for a non-empty integer vector v, v.max() is an element of v that
\* is >= every element and v.min() an element that is <= every element, so
\* min() <= max(); on an empty vector both fail instead of returning a
\* value.
C22_MaxMinBoundTheElements ==
    op.name \in {"max", "min"} =>
        IF Len(op.x) = 0 THEN res.kind = "panic"
        ELSE /\ res.kind = "ok"
             /\ \E i \in 1..Len(op.x) : op.x[i] = res.v
             /\ op.name = "max" => \A i \in 1..Len(op.x) : res.v >= op.x[i]
             /\ op.name = "min" => \A i \in 1..Len(op.x) : res.v <= op.x[i]
             /\ Min(op.x).v <= Max(op.x).v

\* The minimum of a vector of the longest length has come back, and it is
\* neither the first nor the last element.
C22_Witness ==
    /\ op.name = "min"
    /\ Len(op.x) = MaxLen
    /\ res.kind = "ok"
    /\ res.v < op.x[1] /\ res.v < op.x[MaxLen]

\* C26: into_iter on v yields v.len() items, item k being v[k], in the
\* order of the indices, and then ends; from_iter returns the items it was
\* given in the order they came, so collecting the iteration of v returns a
\* vector equal to v.
C26_IterationRoundTrip ==
    op.name = "collect" =>
        /\ current_step = Len(elements)
        /\ IsPrefix(elements, op.x)
        /\ res.kind = "pending" <=> pc = "iter"
        /\ pc = "idle" =>
              /\ current_step = Len(op.x)
              /\ res = Ok(op.x)
              /\ Eq(res.v, op.x)

\* A vector of the longest length whose first and last elements differ has
\* been iterated and collected.
C26_Witness ==
    /\ op.name = "collect"
    /\ pc = "idle"
    /\ Len(op.x) = MaxLen
    /\ op.x[1] # op.x[MaxLen]
    /\ res = Ok(op.x)

(***************************************************************************)
(* Clone, specification CloneSpec: `let mut a = Vector::from(vec![..])`,   *)
(* `let mut b = a.clone()`, and then any sequence of compound assignments  *)
(* to `a` and to `b`.  A Vector owns its Vec and clone returns an owned    *)
(* Vector, so `a` and `b` are two values.                                  *)
(***************************************************************************)
\* Mutant of Clone: a Vec of the same capacity, the elements not copied.
CloneEmpty(self) == <<>>

\* impl Clone for Vector<T>: Vector { elements: self.elements.clone() }
Clone(self) == [i \in 1..Len(self) |-> self[i]]

InitClone ==
    /\ a \in CloneVectors
    /\ b = <<>>
    /\ op = NoCall
    /\ res = [kind |-> "none"]
    /\ pc = "idle"
    /\ current_step = 0
    /\ elements = <<>>
    /\ step = 0

\* let mut b = a.clone()
CallClone ==
    /\ pc = "idle"
    /\ b' = Clone(a)
    /\ op' = [name |-> "clone", target |-> "a"]
    /\ res' = Ok(Clone(a))
    /\ UNCHANGED <<a, pc, current_step, elements, step>>

\* The vector a compound assignment is applied to.
Target(target) == IF target = "a" THEN a ELSE b

InCloneVals(v) == \A i \in 1..Len(v) : v[i] \in CloneVals

\* Mutant of AssignsTo: the clone shares the storage of the vector it was
\* made from, so what is written to one is written to both.
AssignsToBoth(target, name, r) ==
    /\ InCloneVals(r.elements)
    /\ a' = r.elements
    /\ b' = r.elements
    /\ op' = [name |-> name, target |-> target]
    /\ res' = r.res
    /\ UNCHANGED <<pc, current_step, elements, step>>

\* `target op= operand` has come back with r.res and left r.elements in
\* the target; the other vector is not part of the call.
AssignsTo(target, name, r) ==
    /\ InCloneVals(r.elements)
    /\ a' = IF target = "a" THEN r.elements ELSE a
    /\ b' = IF target = "b" THEN r.elements ELSE b
    /\ op' = [name |-> name, target |-> target]
    /\ res' = r.res
    /\ UNCHANGED <<pc, current_step, elements, step>>

CloneAddAssign(target, other) ==
    /\ op # NoCall
    /\ AssignsTo(target, "add_assign", AddAssign(Target(target), other))

CloneSubAssign(target, other) ==
    /\ op # NoCall
    /\ AssignsTo(target, "sub_assign", SubAssign(Target(target), other))

CloneMulAssign(target, other) ==
    /\ op # NoCall
    /\ AssignsTo(target, "mul_assign", MulAssign(Target(target), other))

CloneAddAssignScalar(target, s) ==
    /\ op # NoCall
    /\ AssignsTo(target, "add_assign_scalar", AddAssignScalar(Target(target), s))

CloneSubAssignScalar(target, s) ==
    /\ op # NoCall
    /\ AssignsTo(target, "sub_assign_scalar", SubAssignScalar(Target(target), s))

CloneMulAssignScalar(target, s) ==
    /\ op # NoCall
    /\ AssignsTo(target, "mul_assign_scalar", MulAssignScalar(Target(target), s))

Targets == {"a", "b"}

CloneNext ==
    \/ CallClone
    \/ \E target \in Targets, other \in CloneVectors : CloneAddAssign(target, other)
    \/ \E target \in Targets, other \in CloneVectors : CloneSubAssign(target, other)
    \/ \E target \in Targets, other \in CloneVectors : CloneMulAssign(target, other)
    \/ \E target \in Targets, s \in CloneVals : CloneAddAssignScalar(target, s)
    \/ \E target \in Targets, s \in CloneVals : CloneSubAssignScalar(target, s)
    \/ \E target \in Targets, s \in CloneVals : CloneMulAssignScalar(target, s)

CloneSpec == InitClone /\ [][CloneNext]_vars

(***************************************************************************)
(* Claim about clone, checked under CloneSpec.                             *)
(***************************************************************************)
AssignOps == VecVecAssignOps \cup ScalarAssignOps

\* C16: v.clone() equals v, by the library's own comparison too, and the
\* clone has its own storage: no compound assignment to the clone changes
\* v and none to v changes the clone, so after any sequence of them the
\* vector that was not assigned to holds what it held at the clone.
C16_CloneEqualAndIndependent ==
    /\ [](op.name = "clone" => b = a /\ res = Ok(a) /\ Eq(b, a))
    /\ [][(op'.name \in AssignOps /\ op'.target = "b") => a' = a]_vars
    /\ [][(op'.name \in AssignOps /\ op'.target = "a") => b' = b]_vars

\* A compound assignment to the clone of a vector of the longest length has
\* left the clone different from the vector at every index.
C16_Witness ==
    /\ op.name \in AssignOps /\ op.target = "b"
    /\ res = Done
    /\ Len(a) = MaxCloneLen /\ Len(b) = MaxCloneLen
    /\ \A i \in 1..MaxCloneLen : a[i] # b[i]

(***************************************************************************)
(* Two vectors and every operation, specification FrameSpec:               *)
(* `let mut a = Vector::from(..)`, `let mut b = Vector::from(..)` and then *)
(* any sequence of calls on `a` and on `b`.  A method that takes `&self`   *)
(* is handed the vector to read; an operator that takes its operands by    *)
(* value is called on clones (`a.clone() + b.clone()`), the vector itself  *)
(* would be gone after the call; a compound assignment takes `&mut self`   *)
(* and is given a clone of the other vector as its operand.  `let b = ..`  *)
(* binds `b` to a vector a call on `a` has returned.  The elements stay    *)
(* within FrameVals.                                                       *)
(***************************************************************************)
FrameVals == 0..1
FrameVectors == UNION {[1..n -> FrameVals] : n \in 0..MaxFrameLen}

InFrameVals(v) == \A i \in 1..Len(v) : v[i] \in FrameVals

InitFrame ==
    /\ a \in FrameVectors
    /\ b \in FrameVectors
    /\ op = NoCall
    /\ res = [kind |-> "none"]
    /\ pc = "idle"
    /\ current_step = 0
    /\ elements = <<>>
    /\ step = 0

\* The vector that is not the target.
Other(target) == IF target = "a" THEN b ELSE a

\* A call that reads the target has come back with the result.
Reads(target, name, result) ==
    /\ op' = [name |-> name, target |-> target]
    /\ res' = result
    /\ UNCHANGED <<a, b, pc, current_step, elements, step>>

FrameLen(target) ==
    /\ pc = "idle"
    /\ Reads(target, "len", Ok(VLen(Target(target))))

FrameIndex(target, i) ==
    /\ pc = "idle"
    /\ Reads(target, "index", Index(Target(target), i))

FrameSlice(target, start, end) ==
    /\ pc = "idle"
    /\ Reads(target, "slice", SliceRange(Target(target), start, end))

FrameClone(target) ==
    /\ pc = "idle"
    /\ Reads(target, "clone", Ok(Clone(Target(target))))

FramePower(target, exp) ==
    /\ pc = "idle"
    /\ Reads(target, "power", Ok(Power(Target(target), exp)))

FrameFilter(target, cmp, t) ==
    /\ pc = "idle"
    /\ Reads(target, "filter", Ok(Filter(Target(target), cmp, t)))

FrameSum(target) ==
    /\ pc = "idle"
    /\ Reads(target, "sum", Ok(Sum(Target(target))))

FrameMax(target) ==
    /\ pc = "idle"
    /\ Reads(target, "max", Max(Target(target)))

FrameMin(target) ==
    /\ pc = "idle"
    /\ Reads(target, "min", Min(Target(target)))

FrameEq(target) ==
    /\ pc = "idle"
    /\ Reads(target, "eq", Ok(Eq(Target(target), Other(target))))

\* The operator a by-value expression resolves to: x + y, x - y, x * y for
\* two vectors, for a vector and a scalar, and for a scalar and a vector.
Operator(name, x, y) ==
    CASE name = "add" -> Add(x, y)
      [] name = "sub" -> Sub(x, y)
      [] name = "mul" -> Mul(x, y)
      [] name = "add_scalar" -> Ok(AddScalar(x, y))
      [] name = "sub_scalar" -> Ok(SubScalar(x, y))
      [] name = "mul_scalar" -> Ok(MulScalar(x, y))
      [] name = "scalar_add" -> Ok(ScalarAdd(x, y))
      [] name = "scalar_sub" -> Ok(ScalarSub(x, y))
      [] name = "scalar_mul" -> Ok(ScalarMul(x, y))

\* The compound assignment `x op= y` resolves to.
Assignment(name, x, y) ==
    CASE name = "add_assign" -> AddAssign(x, y)
      [] name = "sub_assign" -> SubAssign(x, y)
      [] name = "mul_assign" -> MulAssign(x, y)
      [] name = "add_assign_scalar" -> AddAssignScalar(x, y)
      [] name = "sub_assign_scalar" -> SubAssignScalar(x, y)
      [] name = "mul_assign_scalar" -> MulAssignScalar(x, y)

\* target.clone() + other.clone() and so on
FrameOperator(target, name) ==
    /\ pc = "idle"
    /\ Reads(target, name, Operator(name, Clone(Target(target)), Clone(Other(target))))

\* target.clone() + s and so on
FrameScalarOperator(target, name, s) ==
    /\ pc = "idle"
    /\ Reads(target, name, Operator(name, Clone(Target(target)), s))

\* s + target.clone() and so on
FrameLeftScalarOperator(target, name, s) ==
    /\ pc = "idle"
    /\ Reads(target, name, Operator(name, s, Clone(Target(target))))

\* A builder is called while `a` and `b` exist: Vector::full(len, value)
FrameFull(len, value) ==
    /\ pc = "idle"
    /\ Reads("none", "full", Ok(Full(len, value)))

\* let mut b = a.clone()
FrameLetClone ==
    /\ pc = "idle"
    /\ b' = Clone(a)
    /\ op' = [name |-> "let_clone", target |-> "a"]
    /\ res' = Ok(Clone(a))
    /\ UNCHANGED <<a, pc, current_step, elements, step>>

\* let mut b = a.slice(start..end); a slice that panics binds nothing
FrameLetSlice(start, end) ==
    /\ pc = "idle"
    /\ b' = IF SliceRange(a, start, end).kind = "ok" THEN SliceRange(a, start, end).v ELSE b
    /\ op' = [name |-> "let_slice", target |-> "a"]
    /\ res' = SliceRange(a, start, end)
    /\ UNCHANGED <<a, pc, current_step, elements, step>>

\* target += other.clone() and so on
FrameAssign(target, name) ==
    /\ pc = "idle"
    /\ InFrameVals(Assignment(name, Target(target), Clone(Other(target))).elements)
    /\ AssignsTo(target, name, Assignment(name, Target(target), Clone(Other(target))))

\* target += s and so on
FrameAssignScalar(target, name, s) ==
    /\ pc = "idle"
    /\ InFrameVals(Assignment(name, Target(target), s).elements)
    /\ AssignsTo(target, name, Assignment(name, Target(target), s))

RightScalarOps == {"add_scalar", "sub_scalar", "mul_scalar"}
LeftScalarOps == {"scalar_add", "scalar_sub", "scalar_mul"}
FrameUsizes == 0..(MaxFrameLen + 1)
FrameExps == 0..3

FrameNext ==
    \/ \E target \in Targets : FrameLen(target)
    \/ \E target \in Targets, i \in FrameUsizes : FrameIndex(target, i)
    \/ \E target \in Targets, start \in FrameUsizes, end \in FrameUsizes :
          FrameSlice(target, start, end)
    \/ \E target \in Targets : FrameClone(target)
    \/ \E target \in Targets, exp \in FrameExps : FramePower(target, exp)
    \/ \E target \in Targets, cmp \in Cmps, t \in FrameVals : FrameFilter(target, cmp, t)
    \/ \E target \in Targets : FrameSum(target)
    \/ \E target \in Targets : FrameMax(target)
    \/ \E target \in Targets : FrameMin(target)
    \/ \E target \in Targets : FrameEq(target)
    \/ \E target \in Targets, name \in VecVecOps : FrameOperator(target, name)
    \/ \E target \in Targets, name \in RightScalarOps, s \in CloneVals :
          FrameScalarOperator(target, name, s)
    \/ \E target \in Targets, name \in LeftScalarOps, s \in CloneVals :
          FrameLeftScalarOperator(target, name, s)
    \/ \E len \in 0..MaxFrameLen, value \in FrameVals : FrameFull(len, value)
    \/ FrameLetClone
    \/ \E start \in FrameUsizes, end \in FrameUsizes : FrameLetSlice(start, end)
    \/ \E target \in Targets, name \in VecVecAssignOps : FrameAssign(target, name)
    \/ \E target \in Targets, name \in ScalarAssignOps, s \in CloneVals :
          FrameAssignScalar(target, name, s)

FrameSpec == InitFrame /\ [][FrameNext]_vars

(***************************************************************************)
(* Claims about what a call leaves as it was, checked under FrameSpec.     *)
(***************************************************************************)
\* The calls that bind `b` to a vector the call returns.
Lets == {"let_clone", "let_slice"}

\* C23: the length of an existing vector never changes: whatever is called
\* on it or with it, compound assignments that succeed and that fail
\* included, `a` keeps its length, and `b` keeps its length until it is
\* bound to a newly returned vector; only a returned vector has another
\* length.
C23_LengthNeverChanges ==
    /\ [][Len(a') = Len(a)]_vars
    /\ [][op'.name \notin Lets => Len(b') = Len(b)]_vars

\* A compound assignment with an operand of another length has failed on a
\* vector of the longest length, which still has that length.
C23_Witness ==
    /\ op.name \in VecVecAssignOps
    /\ op.target = "a"
    /\ res.kind = "panic"
    /\ Len(a) = MaxFrameLen
    /\ Len(b) = 1

\* C24: only a compound assignment changes elements, and only those of its
\* receiver: every other call leaves the elements of `a` and of `b` as they
\* were (a `let` leaves those of `a`), and a compound assignment to one of
\* the two vectors leaves the other as it was, also when the other is a
\* clone or a slice of it.
C24_OnlyAssignmentWritesItsReceiver ==
    /\ [][op'.name \notin AssignOps => a' = a]_vars
    /\ [][op'.name \notin (AssignOps \cup Lets) => b' = b]_vars
    /\ [][(op'.name \in AssignOps /\ op'.target = "a") => b' = b]_vars
    /\ [][(op'.name \in AssignOps /\ op'.target = "b") => a' = a]_vars

\* A compound assignment to `a` has changed every element of it, and `b`,
\* as long as `a`, still holds what `a` held before.
C24_Witness ==
    /\ op.name \in ScalarAssignOps
    /\ op.target = "a"
    /\ res = Done
    /\ Len(a) = MaxFrameLen /\ Len(b) = MaxFrameLen
    /\ \A i \in 1..MaxFrameLen : a[i] = b[i] + 1

(***************************************************************************)
(* One vector through a sequence of additions and subtractions,            *)
(* specification AlgebraSpec: `let mut v = Vector::from(..)` and then any  *)
(* sequence of `v += s`, `v -= s`, `let v = v + w` and `let v = v - w`.    *)
(* `a` holds v; op holds the last call with v as it was before the call    *)
(* and, in `after`, the call before it if that one had the same operand.   *)
(* The elements stay within AlgVals, where no arithmetic overflows.        *)
(***************************************************************************)
AlgVals == -2..2
AlgVectors == UNION {[1..n -> AlgVals] : n \in 0..MaxCloneLen}

InAlgVals(v) == \A i \in 1..Len(v) : v[i] \in AlgVals

InitAlgebra ==
    /\ a \in AlgVectors
    /\ b = <<>>
    /\ op = NoCall
    /\ res = [kind |-> "none"]
    /\ pc = "idle"
    /\ current_step = 0
    /\ elements = <<>>
    /\ step = 0

\* The name of the call before this one if it is one of `names` and had
\* this operand.
After(operand, names) ==
    IF op.name \in names /\ op.y = operand THEN op.name ELSE "other"

\* `v op= s` has come back with r.res and left r.elements in v.
AlgAssigns(name, s, r) ==
    /\ a' = r.elements
    /\ op' = [name |-> name, x |-> a, y |-> s, after |-> After(s, ScalarAssignOps)]
    /\ res' = r.res
    /\ UNCHANGED <<b, pc, current_step, elements, step>>

\* v += s
AlgAddAssignScalar(s) ==
    /\ pc = "idle"
    /\ InAlgVals(AddAssignScalar(a, s).elements)
    /\ AlgAssigns("add_assign_scalar", s, AddAssignScalar(a, s))

\* v -= s
AlgSubAssignScalar(s) ==
    /\ pc = "idle"
    /\ InAlgVals(SubAssignScalar(a, s).elements)
    /\ AlgAssigns("sub_assign_scalar", s, SubAssignScalar(a, s))

\* `let v = v operator w` has come back with the result: v is bound to the
\* vector returned, and to nothing new if the call has panicked.
Rebinds(name, w, result) ==
    /\ a' = IF result.kind = "ok" THEN result.v ELSE a
    /\ op' = [name |-> name, x |-> a, y |-> w, after |-> After(w, VecVecOps)]
    /\ res' = result
    /\ UNCHANGED <<b, pc, current_step, elements, step>>

\* let v = v + w
AlgAdd(w) ==
    /\ pc = "idle"
    /\ Add(a, w).kind = "ok" => InAlgVals(Add(a, w).v)
    /\ Rebinds("add", w, Add(a, w))

\* let v = v - w
AlgSub(w) ==
    /\ pc = "idle"
    /\ Sub(a, w).kind = "ok" => InAlgVals(Sub(a, w).v)
    /\ Rebinds("sub", w, Sub(a, w))

AlgebraNext ==
    \/ \E s \in CloneVals : AlgAddAssignScalar(s)
    \/ \E s \in CloneVals : AlgSubAssignScalar(s)
    \/ \E w \in CloneVectors : AlgAdd(w)
    \/ \E w \in CloneVectors : AlgSub(w)

AlgebraSpec == InitAlgebra /\ [][AlgebraNext]_vars

(***************************************************************************)
(* Claim about addition and subtraction, checked under AlgebraSpec.        *)
(***************************************************************************)
\* C29: over integers that do not overflow, `v += s` followed by `v -= s`
\* leaves v with the elements it had before the two, and for v and w of
\* one length (v + w) - w is v and v + w is w + v.
C29_AdditionAndSubtractionUndo ==
    /\ [][(op.name = "add_assign_scalar" /\ op'.name = "sub_assign_scalar"
              /\ op'.y = op.y) => a' = op.x]_vars
    /\ [][(op.name = "add" /\ res.kind = "ok" /\ op'.name = "sub" /\ op'.y = op.y) =>
              res' = Ok(op.x) /\ a' = op.x]_vars
    /\ []((op.name = "add" /\ Len(op.x) = Len(op.y)) =>
              res.kind = "ok" /\ res = Add(op.y, op.x))

\* `v -= s` has come back after `v += s`, for a vector of the longest
\* length and s not zero: v is what it was before the two and not what it
\* was between them.
C29_Witness ==
    /\ op.name = "sub_assign_scalar"
    /\ op.after = "add_assign_scalar"
    /\ op.y # 0
    /\ Len(a) = MaxCloneLen
    /\ \A i \in 1..MaxCloneLen : a[i] = op.x[i] - op.y
    /\ a[1] # a[MaxCloneLen]

====
